---- MODULE Spec2Model ----
(***************************************************************************)
(* A model of the two Telegram bot programs of the repository:             *)
(*   src/Parlay.py  the /get bot: daily cache, league allow-list, retrying *)
(*                  fetch, prediction fan-out behind a semaphore of 5;     *)
(*   src/bot.py     the /jadwal - callback - /prediksi bot: process-wide   *)
(*                  selection state, state file, fan-out behind a          *)
(*                  semaphore of 3 over a fetch that does not retry.       *)
(* A process runs one of the two programs (variable prog).  Handlers run   *)
(* one update at a time (python-telegram-bot's default), so a handler is   *)
(* one action unless it suspends in asyncio.gather, where its tasks        *)
(* interleave.                                                             *)
(***************************************************************************)
EXTENDS Integers, Sequences, FiniteSets, TLC

\* ------------------------------------------------------------------ bounds
\* Fixture ids beyond the /prediksi semaphore's limit that a state file
\* may hold.
MaxExtra == 1
\* The last local calendar day the model's clock reaches (days are 1..MaxDay).
MaxDay == 2

\* ------------------------------------------------------- program constants
CONCURRENT_PREDICTIONS_GET == 5
CONCURRENT_PREDICTIONS_BOT == 3
\* range(3) in Parlay.fetch_json
Attempts == 3

\* ------------------------------------------------------------- environment
\* The outcome of one HTTP GET: status 200 with a JSON body, another status,
\* or an exception raised by session.get / res.json().
Outcomes == {"ok", "non200", "exc"}

\* The keys of the JSON object a leagues.json holds, in dict order.  json.load
\* gives object keys as str: 10 stands for the key "10".
LeagueMap == <<10, 20>>

\* load_league_map: {} when the file is missing, else what json.load gives:
\* a dict for a JSON object, a list for a JSON array of league objects.
LoadLeagueMap(file) ==
    CASE file = "object" -> [kind |-> "dict", keys |-> LeagueMap]
      [] file = "array" -> [kind |-> "list", keys |-> <<>>]
      [] OTHER -> [kind |-> "dict", keys |-> <<>>]

Fixture(i, l, d) == [id |-> i, league |-> l, date |-> d]

\* The league of the fixtures of the full schedule: alternating.
LeagueOf(i) == IF i % 2 = 1 THEN 10 ELSE 20

\* The fixtures lo..hi of the full schedule, played on day d.
RECURSIVE FullList(_, _, _)
FullList(lo, hi, d) ==
    IF lo > hi THEN <<>>
    ELSE <<Fixture(lo, LeagueOf(lo), d)>> \o FullList(lo + 1, hi, d)

\* The number of fixtures of the full schedule: one more than the /get
\* gate admits.
FullCount == CONCURRENT_PREDICTIONS_GET + 1

\* What the sports API answers to GET /fixtures?date=d&status=NS under a
\* schedule scenario s: the response list, in API order.
\*   "full"   one fixture more than the /get gate admits, split
\*            over day 1 and day 2, all in allowed leagues;
\*   "mixed"  a fixture of a league outside the allow-list, and a fixture
\*            that the API lists under both dates;
\*   "none"   no fixture on any date.
ApiFixtures(s, d) ==
    CASE s = "full" /\ d = 1 ->
            FullList(1, FullCount \div 2, 1)
      [] s = "full" /\ d = 2 ->
            FullList(FullCount \div 2 + 1, FullCount, 2)
      [] s = "mixed" /\ d = 1 ->
            <<Fixture(1, 10, 1), Fixture(7, 30, 1)>>
      [] s = "mixed" /\ d = 2 ->
            <<Fixture(1, 10, 1), Fixture(2, 20, 2)>>
      [] OTHER -> <<>>

\* Fixtures for which GET /predictions answers an empty "response" list.
NoPredictionIds == {2}

\* ----------------------------------------------------------------- results
\* fetch_json's "no data" result (None).
NoData == [kind |-> "none", fixture |-> 0, entries |-> 0]

\* The parsed body of GET /predictions?fixture=f: {"response": [...]}, with
\* the number of prediction entries it holds (each is about fixture f).
Body(f) ==
    [kind |-> "json", fixture |-> f,
     entries |-> IF f \in NoPredictionIds THEN 0 ELSE 1]

\* One entry of a /predictions response: data["response"][0].
Entry(f) == [kind |-> "pred", fixture |-> f, entries |-> 1]

\* ------------------------------------------------------------------ fetch
\* One call of fetch_json is a record: pc is "get" (the request is in
\* flight), "sleep" (asyncio.sleep(2) after a failed attempt), "ret" (it
\* returned res) or "raised" (an exception left it); att counts the attempts
\* started; fid is the fixture the request is about.
Call(f) == [pc |-> "get", att |-> 1, fid |-> f, res |-> NoData]

\* A fetch that backs off after a status other than 200 but goes straight
\* to the next attempt after an exception.
ParlayAfterGetNoSleepOnExc(c, o) ==
    CASE o = "ok" -> [c EXCEPT !.pc = "ret", !.res = Body(c.fid)]
      [] o = "non200" -> [c EXCEPT !.pc = "sleep"]
      [] OTHER -> IF c.att < Attempts
                  THEN [c EXCEPT !.att = c.att + 1]
                  ELSE [c EXCEPT !.pc = "ret", !.res = NoData]

\* Parlay.fetch_json, the step that ends attempt c.att with outcome o:
\* status 200 returns the body; another status, or an exception, sleeps.
ParlayAfterGet(c, o) ==
    IF o = "ok"
    THEN [c EXCEPT !.pc = "ret", !.res = Body(c.fid)]
    ELSE [c EXCEPT !.pc = "sleep"]

\* Parlay.fetch_json, the step that ends a sleep: the loop's next attempt,
\* or, after the last, return None.
ParlayAfterSleep(c) ==
    IF c.att < Attempts
    THEN [c EXCEPT !.pc = "get", !.att = c.att + 1]
    ELSE [c EXCEPT !.pc = "ret", !.res = NoData]

\* bot.fetch_json, the step that ends its only attempt: status 200 returns
\* the body, another status returns None, an exception propagates.
BotAfterGet(c, o) ==
    CASE o = "ok" -> [c EXCEPT !.pc = "ret", !.res = Body(c.fid)]
      [] o = "non200" -> [c EXCEPT !.pc = "ret", !.res = NoData]
      [] OTHER -> [c EXCEPT !.pc = "raised"]

\* fetch_prediction_for_fixture applied to what fetch_json returned.
\* Parlay: the body as it is.  bot: the first entry of a non-empty
\* "response", else None.
ParlayPrediction(r) == r

BotPrediction(r) ==
    IF r.kind = "json" /\ r.entries > 0 THEN Entry(r.fixture) ELSE NoData

\* ---------------------------------------------------------------- fan-out
\* A task of the fan-out, sem_fetch(fid): a fetch call that first waits for
\* the semaphore (pc "wait").
Waiting(f) == [pc |-> "wait", att |-> 0, fid |-> f, res |-> NoData]

\* A gate that admits every task at once.
SemFreeAlways(s) == TRUE

\* asyncio.Semaphore.acquire lets a task in while the value is positive.
SemFree(s) == s > 0

\* The tasks holding a slot: admitted by "async with sem" and not yet out
\* of it.
InFlight(t) == {i \in 1..Len(t) : t[i].pc \in {"get", "sleep"}}

\* A fan-in that keeps only the requests that gave data.
GatherCompacted(t) ==
    SelectSeq([i \in 1..Len(t) |-> t[i].res], LAMBDA r : r.kind # "none")

\* asyncio.gather's result: the tasks' results in the order of the
\* awaitables it was given.
GatherResults(t) == [i \in 1..Len(t) |-> t[i].res]

\* The records /get builds: for each index whose result has a non-empty
\* "response", team names and kickoff from fixtures[idx], the rest from the
\* response's first entry.
RECURSIVE NormalizeParlay(_, _, _)
NormalizeParlay(fx, raw, idx) ==
    IF idx > Len(raw) THEN <<>>
    ELSE (IF raw[idx].kind = "none" \/ raw[idx].entries = 0
          THEN <<>>
          ELSE <<[teams |-> fx[idx].id, pred |-> raw[idx].fixture]>>)
         \o NormalizeParlay(fx, raw, idx + 1)

\* The records /prediksi builds: one per result that is not None, all of
\* it from the prediction entry.
RECURSIVE NormalizeBot(_, _)
NormalizeBot(raw, idx) ==
    IF idx > Len(raw) THEN <<>>
    ELSE (IF raw[idx].kind = "none"
          THEN <<>>
          ELSE <<[teams |-> raw[idx].fixture, pred |-> raw[idx].fixture]>>)
         \o NormalizeBot(raw, idx + 1)

\* ------------------------------------------------------------------ state
VARIABLES
    prog,                \* "Parlay" or "bot": the program this process runs
    sched,               \* the API's schedule scenario (environment)
    leaguesFile,         \* Parlay: leagues.json as found (environment)
    apiIds,              \* the JSON type of the ids in the API's answers
                         \* (environment): "int" or "str"
    today,               \* the local calendar day (Asia/Makassar)
    pc,                  \* "boot", "idle", "gather" (a handler suspended in
                         \* asyncio.gather) or "dead" (main raised)
    out,                 \* the last handler's command and what the user saw
    keyboard,            \* callback data of the inline buttons last offered
    cacheFile,           \* Parlay: cache_fixtures.json
    today_key,           \* Parlay: get_handler's today_key
    cache,               \* Parlay: get_handler's cache (what load_cache gave)
    fixtures,            \* Parlay: get_handler's fixtures list
    SELECTED_LEAGUE,     \* bot: module global (a dict: <<>> is {})
    FIXTURE_IDS,         \* bot: module global
    SELECTED_LEAGUE_IDS, \* bot: module global; bound is FALSE while the
                         \* name was never assigned
    bot_data,            \* bot: context.bot_data "fixtures" and "leagues"
    stateFile,           \* bot: state.json
    picked,              \* history: the leagues that the toggle callbacks
                         \* delivered since the selection was last cleared
                         \* have switched on
    chat,                \* bot: the chat of the update handled last (0: none)
    confirmedBy,         \* history: the chat whose done callback computed
                         \* FIXTURE_IDS (0: none did)
    clearedBy,           \* history: the chat whose /prediksi's reset_state
                         \* cleared FIXTURE_IDS (0: none did)
    task,                \* the fan-out's tasks, in creation order
    sem,                 \* the fan-out's semaphore value
    raw_predictions,     \* what asyncio.gather returned
    predictions,         \* the normalized records of the report
    call,                \* a single fetch_json call followed on its own
    trace                \* that call's events, oldest first

vars ==
    <<prog, sched, leaguesFile, apiIds, today, pc, out, keyboard, cacheFile, today_key, cache,
      fixtures,
      SELECTED_LEAGUE, FIXTURE_IDS, SELECTED_LEAGUE_IDS, bot_data, stateFile,
      picked, chat, confirmedBy, clearedBy, task, sem, raw_predictions,
      predictions, call, trace>>

envVars == <<prog, sched, leaguesFile, apiIds>>

parlayVars == <<cacheFile, today_key, cache, fixtures>>

botVars ==
    <<SELECTED_LEAGUE, FIXTURE_IDS, SELECTED_LEAGUE_IDS, bot_data, stateFile,
      picked, keyboard, confirmedBy, clearedBy>>

fanVars == <<task, sem, raw_predictions, predictions>>

fetchVars == <<call, trace>>

\* ------------------------------------------------------- Parlay: the cache
\* cache_fixtures.json: absent, not parseable as JSON ("bad"), a JSON value
\* that is not an object ("list"), or a dict from keys to entries.  A key
\* "YYYY-MM-DD" is the number of its day; NotADate is a key that
\* strptime(key, "%Y-%m-%d") rejects.
EmptyDict == [k \in {} |-> 0]

AbsentFile == [kind |-> "absent", data |-> EmptyDict]

BadFile == [kind |-> "bad", data |-> EmptyDict]

ListFile == [kind |-> "list", data |-> EmptyDict]

NotADate == -1

DictFile(d) == [kind |-> "dict", data |-> d]

Put(d, k, e) == [x \in DOMAIN d \cup {k} |-> IF x = k THEN e ELSE d[x]]

Without(d, ks) == [x \in DOMAIN d \ ks |-> d[x]]

\* An entry written on an earlier run.
OldEntry ==
    [fixtures |-> <<1>>, predictions |-> <<[teams |-> 1, pred |-> 1]>>]

\* A load_cache that also evicts the entry keyed today.
LoadCacheEvictToday(file, t) ==
    CASE file.kind \in {"absent", "bad"} ->
            [raised |-> "none", data |-> EmptyDict, file |-> file]
      [] file.kind = "list" ->
            [raised |-> "AttributeError", data |-> EmptyDict, file |-> file]
      [] NotADate \in DOMAIN file.data ->
            [raised |-> "ValueError", data |-> EmptyDict, file |-> file]
      [] OTHER ->
            LET expired == {k \in DOMAIN file.data : k <= t}
                kept == Without(file.data, expired)
            IN [raised |-> "none", data |-> kept,
                file |-> IF expired # {} THEN DictFile(kept) ELSE file]

\* load_cache on day t: the cache it returns and the file it leaves, or the
\* exception it raises.  A missing or unparseable file gives {}.  The rest
\* runs outside the try block: data.keys() raises AttributeError on a list,
\* strptime raises ValueError on a key that is not a date.  Keys before t
\* are deleted and, if there were any, the file is rewritten.
LoadCache(file, t) ==
    CASE file.kind \in {"absent", "bad"} ->
            [raised |-> "none", data |-> EmptyDict, file |-> file]
      [] file.kind = "list" ->
            [raised |-> "AttributeError", data |-> EmptyDict, file |-> file]
      [] NotADate \in DOMAIN file.data ->
            [raised |-> "ValueError", data |-> EmptyDict, file |-> file]
      [] OTHER ->
            LET expired == {k \in DOMAIN file.data : k < t}
                kept == Without(file.data, expired)
            IN [raised |-> "none", data |-> kept,
                file |-> IF expired # {} THEN DictFile(kept) ELSE file]

\* ---------------------------------------------------- Parlay: discovery
\* fixture["league"]["id"] == league_id, where league_id is a key of the
\* league map (a str): an id the API gave as a JSON number equals no key.
LeagueIdEquals(id, key) == apiIds = "str" /\ id = key

\* fetch_fixtures_for_league(l) on day t: for today and tomorrow, the API's
\* answer filtered to league l; a date whose request gave no data (its
\* offset is in failed) contributes nothing.
RECURSIVE FetchFixturesForLeague(_, _, _, _)
FetchFixturesForLeague(l, t, failed, k) ==
    IF k > 1 THEN <<>>
    ELSE (IF k \in failed
          THEN <<>>
          ELSE SelectSeq(ApiFixtures(sched, t + k),
                         LAMBDA f : LeagueIdEquals(f.league, l)))
         \o FetchFixturesForLeague(l, t, failed, k + 1)

\* The handler's merge of all_results: in order, each fixture whose id is
\* truthy and not seen before.
RECURSIVE Dedupe(_, _)
Dedupe(lst, seen) ==
    IF lst = <<>> THEN <<>>
    ELSE LET f == Head(lst)
         IN IF f.id # 0 /\ f.id \notin seen
            THEN <<f>> \o Dedupe(Tail(lst), seen \cup {f.id})
            ELSE Dedupe(Tail(lst), seen)

\* all_results flattened: one list per league of the map, in map order;
\* failed[i] holds the date offsets whose request failed for league i.
RECURSIVE AllResults(_, _, _)
AllResults(t, failed, i) ==
    LET keys == LoadLeagueMap(leaguesFile).keys
    IN IF i > Len(keys) THEN <<>>
       ELSE FetchFixturesForLeague(keys[i], t, failed[i], 0)
            \o AllResults(t, failed, i + 1)

\* ------------------------------------------------------- bot: state file
\* state.json: absent, not parseable ("bad"), a JSON value that is not an
\* object ("list"), or {"league": .., "fixtures": ..}.
NoStateFile == [kind |-> "absent", league |-> <<>>, fixtures |-> <<>>]

BadStateFile == [kind |-> "bad", league |-> <<>>, fixtures |-> <<>>]

ListStateFile == [kind |-> "list", league |-> <<>>, fixtures |-> <<>>]

StateFileOf(lg, fx) == [kind |-> "dict", league |-> lg, fixtures |-> fx]

RECURSIVE Ids(_, _)
Ids(lo, hi) == IF lo > hi THEN <<>> ELSE <<lo>> \o Ids(lo + 1, hi)

\* The state files a process may find at start.
StateFiles ==
    {NoStateFile, BadStateFile, ListStateFile}
    \cup {StateFileOf(lg, fx) :
            lg \in {<<>>, <<10>>},
            fx \in {<<>>, <<2>>, Ids(1, CONCURRENT_PREDICTIONS_BOT + MaxExtra)}}

\* The cache files a process may find at start.
CacheFiles ==
    {AbsentFile, BadFile, ListFile,
     DictFile([k \in {0} |-> OldEntry]),
     DictFile([k \in {1} |-> OldEntry]),
     DictFile([k \in {0, MaxDay + 1} |-> OldEntry]),
     DictFile([k \in {NotADate, 1} |-> OldEntry])}

\* A module that binds SELECTED_LEAGUE_IDS to an empty set at import.
BoundAtImport == [bound |-> TRUE, ids |-> {}]

\* The name SELECTED_LEAGUE_IDS before any assignment, and bound to a set.
Unbound == [bound |-> FALSE, ids |-> {}]

Bound(s) == [bound |-> TRUE, ids |-> s]

NoBotData == [fixtures |-> <<>>, leagues |-> {}]

\* The chats that send updates to the bot.
Chats == {1, 2}

\* What the user saw of the last update: the command or callback, the
\* league a callback named, and the reply ("exception" and the exception
\* names stand for a handler that raised).
Said(c, r) == [cmd |-> c, arg |-> 0, reply |-> r]

SaidOf(c, l, r) == [cmd |-> c, arg |-> l, reply |-> r]

\* ------------------------------------------------------------------- Init
\* The state as the module has been imported and main() is about to run.
Init ==
    /\ prog \in {"Parlay", "bot"}
    /\ today = 1
    /\ pc = "boot"
    /\ out = Said("none", "none")
    /\ keyboard = {}
    /\ \/ /\ prog = "Parlay"
          /\ \/ /\ leaguesFile = "object" /\ apiIds \in {"int", "str"}
                /\ \/ sched = "full" /\ cacheFile = AbsentFile
                   \/ sched = "mixed" /\ cacheFile \in CacheFiles
                   \/ sched = "none" /\ cacheFile = AbsentFile
             \/ /\ leaguesFile \in {"absent", "array"} /\ apiIds = "int"
                /\ sched = "mixed" /\ cacheFile = AbsentFile
          /\ stateFile = NoStateFile
       \/ /\ prog = "bot"
          /\ leaguesFile = "absent" /\ apiIds = "int"
          /\ sched \in {"full", "mixed", "none"}
          /\ stateFile \in StateFiles
          /\ cacheFile = AbsentFile
    /\ today_key = 0
    /\ cache = EmptyDict
    /\ fixtures = <<>>
    /\ SELECTED_LEAGUE = <<>>
    /\ FIXTURE_IDS = <<>>
    /\ SELECTED_LEAGUE_IDS = Unbound
    /\ bot_data = NoBotData
    /\ picked = {}
    /\ chat = 0
    /\ confirmedBy = 0
    /\ clearedBy = 0
    /\ task = <<>>
    /\ sem = 0
    /\ raw_predictions = <<>>
    /\ predictions = <<>>
    /\ call = Waiting(0)
    /\ trace = <<>>

\* ---------------------------------------------------------- process start
\* load_state: a missing file gives the empty state, a dict gives its
\* "league" and "fixtures" (absent keys default to {} and []); only
\* FileNotFoundError is caught, so an unparseable file raises (json.load's
\* JSONDecodeError), and so does a list (data.get: AttributeError).
LoadState(file) ==
    [raised |-> file.kind \in {"bad", "list"},
     league |-> IF file.kind = "dict" THEN file.league ELSE <<>>,
     fixtures |-> IF file.kind = "dict" THEN file.fixtures ELSE <<>>]

\* main() up to run_webhook.  bot.py loads the state file first.
Boot ==
    /\ pc = "boot"
    /\ IF prog = "bot"
       THEN LET ls == LoadState(stateFile)
            IN IF ls.raised
               THEN /\ pc' = "dead"
                    /\ UNCHANGED <<SELECTED_LEAGUE, FIXTURE_IDS>>
               ELSE /\ pc' = "idle"
                    /\ SELECTED_LEAGUE' = ls.league
                    /\ FIXTURE_IDS' = ls.fixtures
       ELSE /\ pc' = "idle"
            /\ UNCHANGED <<SELECTED_LEAGUE, FIXTURE_IDS>>
    /\ out' = Said("main", IF pc' = "dead" THEN "exception" ELSE "none")
    /\ UNCHANGED <<envVars, chat, today, keyboard, parlayVars,
                   SELECTED_LEAGUE_IDS, bot_data, stateFile, picked,
                   confirmedBy, clearedBy, fanVars, fetchVars>>

\* The process ends between two updates and is started again: the module
\* is imported afresh, files and the chat's messages stay.
Restart ==
    /\ pc \in {"idle", "dead"}
    /\ pc' = "boot"
    /\ out' = Said("none", "none")
    /\ today_key' = 0
    /\ cache' = EmptyDict
    /\ fixtures' = <<>>
    /\ SELECTED_LEAGUE' = <<>>
    /\ FIXTURE_IDS' = <<>>
    /\ SELECTED_LEAGUE_IDS' = Unbound
    /\ bot_data' = NoBotData
    /\ picked' = {}
    /\ chat' = 0
    /\ confirmedBy' = 0
    /\ clearedBy' = 0
    /\ task' = <<>>
    /\ sem' = 0
    /\ raw_predictions' = <<>>
    /\ predictions' = <<>>
    /\ UNCHANGED <<envVars, today, keyboard, cacheFile, stateFile,
                   fetchVars>>

\* Local midnight passes while no update is being handled.
Tick ==
    /\ pc = "idle"
    /\ today < MaxDay
    /\ today' = today + 1
    /\ UNCHANGED <<envVars, chat, pc, out, parlayVars, botVars, fanVars,
                   fetchVars>>

\* ------------------------------------------------------- the fan-out tasks
\* The tasks asyncio.gather is given for the fixture ids fids, and the
\* semaphore they share.
StartTasks(fids, limit) ==
    /\ task' = [i \in 1..Len(fids) |-> Waiting(fids[i])]
    /\ sem' = limit
    /\ raw_predictions' = <<>>
    /\ predictions' = <<>>

\* The task once its fetch_json call made the step to c: when the call
\* returned, the task is done with what fetch_prediction_for_fixture makes
\* of c.res, and the call's loop counter is gone.
SemFetchResult(c) ==
    IF c.pc = "ret"
    THEN [c EXCEPT !.att = 0,
                   !.res = IF prog = "Parlay" THEN ParlayPrediction(c.res)
                           ELSE BotPrediction(c.res)]
    ELSE c

\* A gate whose slot is given back only by a request that returned data.
ReleasedOnDataOnly(c) == IF c.pc = "ret" /\ c.res.kind # "none" THEN 1 ELSE 0

\* A task leaves "async with sem" when its call returned or raised.
Released(c) == IF c.pc \in {"ret", "raised"} THEN 1 ELSE 0

\* "async with sem": the longest waiting task takes a free slot and issues
\* its first request.
TaskAcquire(i) ==
    /\ pc = "gather"
    /\ task[i].pc = "wait"
    /\ \A j \in 1..(i - 1) : task[j].pc # "wait"
    /\ SemFree(sem)
    /\ sem' = sem - 1
    /\ task' = [task EXCEPT ![i] = Call(task[i].fid)]
    /\ UNCHANGED <<envVars, chat, today, pc, out, parlayVars, botVars,
                   raw_predictions, predictions, fetchVars>>

\* The request of task i ends with outcome o.
TaskRespond(i, o) ==
    /\ pc = "gather"
    /\ task[i].pc = "get"
    /\ LET c == IF prog = "Parlay" THEN ParlayAfterGet(task[i], o)
                ELSE BotAfterGet(task[i], o)
       IN /\ task' = [task EXCEPT ![i] = SemFetchResult(c)]
          /\ sem' = sem + Released(c)
    /\ UNCHANGED <<envVars, chat, today, pc, out, parlayVars, botVars,
                   raw_predictions, predictions, fetchVars>>

\* The backoff sleep of task i ends.
TaskWake(i) ==
    /\ pc = "gather"
    /\ task[i].pc = "sleep"
    /\ LET c == ParlayAfterSleep(task[i])
       IN /\ task' = [task EXCEPT ![i] = SemFetchResult(c)]
          /\ sem' = sem + Released(c)
    /\ UNCHANGED <<envVars, chat, today, pc, out, parlayVars, botVars,
                   raw_predictions, predictions, fetchVars>>

AllReturned == \A i \in 1..Len(task) : task[i].pc = "ret"

\* ------------------------------------------------------------ Parlay: /get
FixtureIds(fx) == [i \in 1..Len(fx) |-> fx[i].id]

\* /get when load_cache raises: the exception leaves the handler after the
\* first status message.
GetLoadRaise ==
    /\ prog = "Parlay" /\ pc = "idle"
    /\ LET lc == LoadCache(cacheFile, today)
       IN /\ lc.raised # "none"
          /\ out' = Said("get", lc.raised)
    /\ today_key' = today
    /\ UNCHANGED <<envVars, chat, today, pc, cacheFile, cache, fixtures, botVars,
                   fanVars, fetchVars>>

\* /get with today's entry in the cache: the cached predictions are sent.
GetCached ==
    /\ prog = "Parlay" /\ pc = "idle"
    /\ LET lc == LoadCache(cacheFile, today)
       IN /\ lc.raised = "none"
          /\ today \in DOMAIN lc.data
          /\ cacheFile' = lc.file
          /\ cache' = lc.data
          /\ predictions' = lc.data[today].predictions
    /\ today_key' = today
    /\ fixtures' = <<>>
    /\ task' = <<>>
    /\ raw_predictions' = <<>>
    /\ out' = Said("get", "document")
    /\ UNCHANGED <<envVars, chat, today, pc, botVars, sem, fetchVars>>

\* /get without today's entry: discovery (one task per league of the map,
\* each asking for today and tomorrow; failed tells which requests ended
\* without data), the merge, and the creation of the prediction tasks.
\* league_map.keys() raises AttributeError when the league map is a list.
GetFetch(failed) ==
    /\ prog = "Parlay" /\ pc = "idle"
    /\ LET lc == LoadCache(cacheFile, today)
       IN /\ lc.raised = "none"
          /\ today \notin DOMAIN lc.data
          /\ cacheFile' = lc.file
          /\ cache' = lc.data
    /\ today_key' = today
    /\ IF LoadLeagueMap(leaguesFile).kind = "list"
       THEN /\ fixtures' = <<>>
            /\ StartTasks(<<>>, 0)
            /\ pc' = "idle"
            /\ out' = Said("get", "AttributeError")
       ELSE /\ fixtures' = Dedupe(AllResults(today, failed, 1), {})
            /\ StartTasks(FixtureIds(fixtures'), CONCURRENT_PREDICTIONS_GET)
            /\ pc' = "gather"
            /\ out' = Said("get", "fetching")
    /\ UNCHANGED <<envVars, chat, today, botVars, fetchVars>>

\* /get after asyncio.gather returned: normalization, the cache entry for
\* today_key, the document.
GetFinish ==
    /\ prog = "Parlay" /\ pc = "gather"
    /\ AllReturned
    /\ raw_predictions' = GatherResults(task)
    /\ predictions' = NormalizeParlay(fixtures, raw_predictions', 1)
    /\ cache' = Put(cache, today_key,
                    [fixtures |-> FixtureIds(fixtures),
                     predictions |-> predictions'])
    /\ cacheFile' = DictFile(cache')
    /\ task' = <<>>
    /\ pc' = "idle"
    /\ out' = Said("get", "document")
    /\ UNCHANGED <<envVars, chat, today, today_key, fixtures, botVars, sem,
                   fetchVars>>

\* ------------------------------------------------------------ bot: /jadwal
Leagues(fx) == {fx[i].league : i \in 1..Len(fx)}

\* /jadwal: one blocking request for today's fixtures with outcome o.  An
\* exception escapes the handler; no fixtures is reported; otherwise
\* bot_data gets the fixtures and the league names and one button per
\* league is offered, with callback data league:<id>.
Jadwal(o) ==
    /\ prog = "bot" /\ pc = "idle"
    /\ LET fx == IF o = "ok" THEN ApiFixtures(sched, today) ELSE <<>>
       IN IF o = "exc"
          THEN /\ out' = Said("jadwal", "exception")
               /\ UNCHANGED <<bot_data, keyboard>>
          ELSE IF fx = <<>>
          THEN /\ out' = Said("jadwal", "no_fixtures")
               /\ UNCHANGED <<bot_data, keyboard>>
          ELSE /\ bot_data' = [fixtures |-> fx, leagues |-> Leagues(fx)]
               /\ keyboard' = {<<"league", l>> : l \in Leagues(fx)}
               /\ out' = Said("jadwal", "keyboard")
    /\ chat' \in Chats
    /\ UNCHANGED <<envVars, today, pc, parlayVars, SELECTED_LEAGUE,
                   FIXTURE_IDS, SELECTED_LEAGUE_IDS, stateFile, picked,
                   confirmedBy, clearedBy, fanVars, fetchVars>>

\* --------------------------------------------------------- bot: callbacks
\* The league ids a callback may name.
LeagueIds == {10, 20, 30}

\* The toggle branch's update of the selected set.
Flip(s, l) == IF l \in s THEN s \ {l} ELSE s \cup {l}

\* The done branch's FIXTURE_IDS: the ids of the discovered fixtures whose
\* league is selected, in their order.
RECURSIVE SelectFixtures(_, _)
SelectFixtures(fx, sel) ==
    IF fx = <<>> THEN <<>>
    ELSE (IF Head(fx).league \in sel THEN <<Head(fx).id>> ELSE <<>>)
         \o SelectFixtures(Tail(fx), sel)

\* Callback toggle:<l>.  Reading SELECTED_LEAGUE_IDS raises NameError while
\* the name is unbound; otherwise the membership of l is flipped and the
\* keyboard is rebuilt with toggle:<id> buttons and "done".
Toggle(l) ==
    /\ prog = "bot" /\ pc = "idle"
    /\ IF ~SELECTED_LEAGUE_IDS.bound
       THEN /\ out' = SaidOf("toggle", l, "NameError")
            /\ UNCHANGED <<SELECTED_LEAGUE_IDS, keyboard>>
       ELSE /\ SELECTED_LEAGUE_IDS' = Bound(Flip(SELECTED_LEAGUE_IDS.ids, l))
            /\ keyboard' = {<<"toggle", k>> : k \in bot_data.leagues}
                           \cup {<<"done", 0>>}
            /\ out' = SaidOf("toggle", l, "keyboard")
    /\ picked' = Flip(picked, l)
    /\ chat' \in Chats
    /\ UNCHANGED <<envVars, today, pc, parlayVars, SELECTED_LEAGUE,
                   FIXTURE_IDS, bot_data, stateFile, confirmedBy, clearedBy,
                   fanVars, fetchVars>>

\* Callback done.  NameError while the name is unbound; an empty set is
\* rejected with a message; otherwise FIXTURE_IDS is computed, and then the
\* names of the selected leagues are looked up (KeyError for a league that
\* bot_data does not hold).
Done ==
    /\ prog = "bot" /\ pc = "idle"
    /\ chat' \in Chats
    /\ IF ~SELECTED_LEAGUE_IDS.bound
       THEN /\ out' = Said("done", "NameError")
            /\ UNCHANGED <<FIXTURE_IDS, confirmedBy, clearedBy>>
       ELSE IF SELECTED_LEAGUE_IDS.ids = {}
       THEN /\ out' = Said("done", "rejected")
            /\ UNCHANGED <<FIXTURE_IDS, confirmedBy, clearedBy>>
       ELSE /\ FIXTURE_IDS' =
                  SelectFixtures(bot_data.fixtures, SELECTED_LEAGUE_IDS.ids)
            /\ confirmedBy' = chat'
            /\ clearedBy' = 0
            /\ out' = Said("done",
                           IF SELECTED_LEAGUE_IDS.ids \subseteq bot_data.leagues
                           THEN "confirmed" ELSE "KeyError")
    /\ UNCHANGED <<envVars, today, pc, parlayVars, SELECTED_LEAGUE,
                   SELECTED_LEAGUE_IDS, bot_data, stateFile, picked, keyboard,
                   fanVars, fetchVars>>

\* Callback league:<l>, the data of /jadwal's buttons: neither branch of
\* the handler matches, the query is only answered.
OtherCallback(l) ==
    /\ prog = "bot" /\ pc = "idle"
    /\ out' = SaidOf("league", l, "ignored")
    /\ chat' \in Chats
    /\ UNCHANGED <<envVars, today, pc, parlayVars, botVars, fanVars,
                   fetchVars>>

\* ---------------------------------------------------------- bot: /prediksi
\* /prediksi with no fixture ids: the user is told to choose leagues first.
PrediksiEmpty ==
    /\ prog = "bot" /\ pc = "idle"
    /\ FIXTURE_IDS = <<>>
    /\ out' = Said("prediksi", "choose_first")
    /\ chat' \in Chats
    /\ UNCHANGED <<envVars, today, pc, parlayVars, botVars, fanVars,
                   fetchVars>>

\* /prediksi with fixture ids: one task per id behind the semaphore.
PrediksiStart ==
    /\ prog = "bot" /\ pc = "idle"
    /\ FIXTURE_IDS # <<>>
    /\ StartTasks(FIXTURE_IDS, CONCURRENT_PREDICTIONS_BOT)
    /\ pc' = "gather"
    /\ out' = Said("prediksi", "fetching")
    /\ chat' \in Chats
    /\ UNCHANGED <<envVars, today, parlayVars, botVars, fetchVars>>

\* A task raised: asyncio.gather (return_exceptions is not set) raises in
\* the handler, which leaves the session block and ends with the exception.
\* The other tasks are not awaited by anyone any more and are dropped.
PrediksiAbort ==
    /\ prog = "bot" /\ pc = "gather"
    /\ \E i \in 1..Len(task) : task[i].pc = "raised"
    /\ task' = <<>>
    /\ pc' = "idle"
    /\ out' = Said("prediksi", "exception")
    /\ UNCHANGED <<envVars, chat, today, parlayVars, botVars, sem,
                   raw_predictions, predictions, fetchVars>>

\* /prediksi after asyncio.gather returned.  No record: a message, and the
\* handler returns.  Otherwise the caption reads SELECTED_LEAGUE['name']
\* (KeyError on {}, before anything is sent); then the document is sent and
\* reset_state runs: it clears SELECTED_LEAGUE and FIXTURE_IDS, then reads
\* SELECTED_LEAGUE_IDS (NameError while unbound), then saves the state.
PrediksiFinish ==
    /\ prog = "bot" /\ pc = "gather"
    /\ AllReturned
    /\ raw_predictions' = GatherResults(task)
    /\ predictions' = NormalizeBot(raw_predictions', 1)
    /\ pc' = "idle"
    /\ IF predictions' = <<>>
       THEN /\ out' = Said("prediksi", "no_predictions")
            /\ UNCHANGED <<SELECTED_LEAGUE, FIXTURE_IDS, SELECTED_LEAGUE_IDS,
                           stateFile, picked, confirmedBy, clearedBy>>
       ELSE IF SELECTED_LEAGUE = <<>>
       THEN /\ out' = Said("prediksi", "KeyError")
            /\ UNCHANGED <<SELECTED_LEAGUE, FIXTURE_IDS, SELECTED_LEAGUE_IDS,
                           stateFile, picked, confirmedBy, clearedBy>>
       ELSE /\ SELECTED_LEAGUE' = <<>>
            /\ FIXTURE_IDS' = <<>>
            /\ picked' = {}
            /\ confirmedBy' = 0
            /\ clearedBy' = chat
            /\ IF SELECTED_LEAGUE_IDS.bound
               THEN /\ SELECTED_LEAGUE_IDS' = Bound({})
                    /\ stateFile' = StateFileOf(<<>>, <<>>)
                    /\ out' = Said("prediksi", "document")
               ELSE /\ out' = Said("prediksi", "document_NameError")
                    /\ UNCHANGED <<SELECTED_LEAGUE_IDS, stateFile>>
    /\ task' = <<>>
    /\ UNCHANGED <<envVars, chat, today, parlayVars, bot_data, keyboard, sem,
                   fetchVars>>

\* ------------------------------------------------------------------- Spec
\* The date offsets (0 today, 1 tomorrow) whose fixtures request failed,
\* per league of the map.
Failures == [1..Len(LeagueMap) -> SUBSET {0, 1}]

Next ==
    \/ Boot
    \/ Restart
    \/ Tick
    \/ \E i \in 1..Len(task) : TaskAcquire(i)
    \/ \E i \in 1..Len(task), o \in Outcomes : TaskRespond(i, o)
    \/ \E i \in 1..Len(task) : TaskWake(i)
    \/ GetLoadRaise
    \/ GetCached
    \/ \E failed \in Failures : GetFetch(failed)
    \/ GetFinish
    \/ \E o \in Outcomes : Jadwal(o)
    \/ \E l \in LeagueIds : Toggle(l)
    \/ Done
    \/ \E l \in LeagueIds : OtherCallback(l)
    \/ PrediksiEmpty
    \/ PrediksiStart
    \/ PrediksiAbort
    \/ PrediksiFinish

Spec == Init /\ [][Next]_vars

\* ------------------------------------------------- one fetch_json call
\* A single call of fetch_json (Parlay's or bot's, by prog) followed on its
\* own, with the events it goes through: the outcome of each attempt, and
\* "sleep" for each backoff wait that ended.
InitFetch ==
    /\ prog \in {"Parlay", "bot"}
    /\ pc = "fetch"
    /\ call \in {Call(f) : f \in 1..FullCount}
    /\ trace = <<>>
    /\ sched = "none"
    /\ leaguesFile = "absent"
    /\ apiIds = "int"
    /\ today = 1
    /\ out = Said("none", "none")
    /\ keyboard = {}
    /\ cacheFile = AbsentFile
    /\ today_key = 0
    /\ cache = EmptyDict
    /\ fixtures = <<>>
    /\ SELECTED_LEAGUE = <<>>
    /\ FIXTURE_IDS = <<>>
    /\ SELECTED_LEAGUE_IDS = Unbound
    /\ bot_data = NoBotData
    /\ stateFile = NoStateFile
    /\ picked = {}
    /\ chat = 0
    /\ confirmedBy = 0
    /\ clearedBy = 0
    /\ task = <<>>
    /\ sem = 0
    /\ raw_predictions = <<>>
    /\ predictions = <<>>

\* The attempt in flight ends with outcome o.
FetchRespond(o) ==
    /\ pc = "fetch"
    /\ call.pc = "get"
    /\ call' = IF prog = "Parlay" THEN ParlayAfterGet(call, o)
               ELSE BotAfterGet(call, o)
    /\ trace' = Append(trace, o)
    /\ UNCHANGED <<envVars, chat, today, pc, out, parlayVars, botVars, fanVars>>

\* The backoff sleep ends.
FetchWake ==
    /\ pc = "fetch"
    /\ call.pc = "sleep"
    /\ call' = ParlayAfterSleep(call)
    /\ trace' = Append(trace, "sleep")
    /\ UNCHANGED <<envVars, chat, today, pc, out, parlayVars, botVars, fanVars>>

NextFetch ==
    \/ \E o \in Outcomes : FetchRespond(o)
    \/ FetchWake

SpecFetch == InitFetch /\ [][NextFetch]_vars

\* ------------------------------------------ the fan-outs under fair scheduling
\* The prediction fan-outs alone: /get on the full schedule (one fixture
\* more than its gate admits, every discovery request answered) and
\* /prediksi on the fixture ids of a state file (one more than its gate
\* admits).
InitLive ==
    /\ Init
    /\ \/ /\ prog = "Parlay"
          /\ leaguesFile = "object" /\ apiIds = "str" /\ sched = "full"
       \/ /\ prog = "bot"
          /\ sched = "none"
          /\ stateFile.kind = "dict"
          /\ Len(stateFile.fixtures) > CONCURRENT_PREDICTIONS_BOT

NoFailure == [i \in 1..Len(LeagueMap) |-> {}]

NextLive ==
    \/ Boot
    \/ GetFetch(NoFailure)
    \/ \E i \in 1..Len(task) : TaskAcquire(i)
    \/ \E i \in 1..Len(task), o \in Outcomes : TaskRespond(i, o)
    \/ \E i \in 1..Len(task) : TaskWake(i)
    \/ GetFinish
    \/ PrediksiStart
    \/ PrediksiAbort
    \/ PrediksiFinish

\* A step of the event loop inside a fan-out: a free slot is taken by the
\* longest waiting task, a request ends with a status or an exception, a
\* sleep ends, or the handler whose gather is done goes on.
FanStep ==
    \/ \E i \in 1..Len(task) : TaskAcquire(i)
    \/ \E i \in 1..Len(task), o \in Outcomes : TaskRespond(i, o)
    \/ \E i \in 1..Len(task) : TaskWake(i)
    \/ GetFinish
    \/ PrediksiAbort
    \/ PrediksiFinish

\* The event loop does not stop while a task or the handler can run, every
\* request in flight ends and every sleep ends: some step of the fan-out
\* is taken while one is possible.
FairLive == WF_vars(FanStep)

SpecLive == InitLive /\ [][NextLive]_vars /\ FairLive

\* ------------------------------------------------ two chats that keep acting
\* The bot with two chats that keep sending /jadwal, toggle and done
\* callbacks and /prediksi, on a state file that parses.
InitChats ==
    /\ Init
    /\ prog = "bot"
    /\ sched = "mixed"
    /\ stateFile.kind \in {"absent", "dict"}

NextChats ==
    \/ Boot
    \/ \E o \in Outcomes : Jadwal(o)
    \/ \E l \in LeagueIds : Toggle(l)
    \/ Done
    \/ PrediksiEmpty
    \/ PrediksiStart
    \/ \E i \in 1..Len(task) : TaskAcquire(i)
    \/ \E i \in 1..Len(task), o \in Outcomes : TaskRespond(i, o)
    \/ PrediksiAbort
    \/ PrediksiFinish

\* The event loop keeps running the fan-out, and the users keep sending
\* each kind of update.
FairChats ==
    /\ WF_vars(FanStep)
    /\ WF_vars(Boot)
    /\ SF_vars(Jadwal("ok"))
    /\ SF_vars(\E l \in LeagueIds : Toggle(l))
    /\ SF_vars(Done)
    /\ SF_vars(PrediksiEmpty \/ PrediksiStart)

SpecChats == InitChats /\ [][NextChats]_vars /\ FairChats

\* =================================================================== claims
\* The limit of the semaphore of the running program's fan-out.
Limit ==
    IF prog = "Parlay" THEN CONCURRENT_PREDICTIONS_GET
    ELSE CONCURRENT_PREDICTIONS_BOT

WaitingTasks == {i \in 1..Len(task) : task[i].pc = "wait"}

\* C1: while /get (limit 5) or /prediksi (limit 3) is in its fan-out, the
\* prediction requests issued and not yet finished are at most the limit,
\* the semaphore's value is the number of free slots, and a task still
\* waiting while a slot is free is only the one about to be admitted.
C1_InFlightBounded ==
    pc = "gather" =>
        /\ Cardinality(InFlight(task)) <= Limit
        /\ sem = Limit - Cardinality(InFlight(task))
        /\ sem >= 0

\* C1 witness: /get's gate is full and a request is waiting for a slot.
C1_GateFull ==
    /\ prog = "Parlay" /\ pc = "gather"
    /\ Cardinality(InFlight(task)) = CONCURRENT_PREDICTIONS_GET
    /\ WaitingTasks # {}

\* C2 (as claimed): the fan-in of a prediction fan-out ends only when every
\* fixture's request has returned (with data or with "no prediction"): no
\* request's failure ends the command before that.
C2_FanInWaitsForAll ==
    [][(pc = "gather" /\ pc' # "gather") =>
          /\ AllReturned
          /\ Len(raw_predictions') = Len(task)]_vars

\* The attempts of the followed call that have ended, and its waits.
AttemptsMade == Len(SelectSeq(trace, LAMBDA e : e # "sleep"))

WaitsMade == Len(SelectSeq(trace, LAMBDA e : e = "sleep"))

\* C3 (as claimed): fetch_json never raises, makes at most 3 attempts, and
\* returns the body of the first attempt that answered 200, or None when
\* all 3 attempts failed.
C3_FetchResult ==
    pc = "fetch" =>
        /\ call.pc # "raised"
        /\ AttemptsMade <= Attempts
        /\ call.pc = "ret" =>
              IF \E k \in 1..Len(trace) : trace[k] = "ok"
              THEN call.res = Body(call.fid)
              ELSE call.res = NoData /\ AttemptsMade = Attempts

\* C4 (as claimed): in Parlay's fetch_json every backoff wait follows a
\* failed attempt and is followed by a retry attempt, so that a call that
\* has returned made one wait less than attempts.
C4_WaitsAlternate ==
    (pc = "fetch" /\ prog = "Parlay") =>
        /\ \A k \in 1..Len(trace) :
              trace[k] = "sleep" =>
                  /\ k > 1
                  /\ trace[k - 1] \in {"non200", "exc"}
                  /\ k < Len(trace) => trace[k + 1] # "sleep"
        /\ call.pc = "ret" =>
              /\ trace[Len(trace)] # "sleep"
              /\ WaitsMade = AttemptsMade - 1

Failed == {"non200", "exc"}

\* C4 (amended): in Parlay's fetch_json every backoff wait follows a failed
\* attempt, every failed attempt is followed by a wait, and every wait but
\* the one after the third failed attempt is followed by a retry; a call
\* that returned after an attempt answering 200 made one wait less than
\* attempts, a call that returned None made 3 attempts and 3 waits.
C4_WaitAfterEachFailure ==
    (pc = "fetch" /\ prog = "Parlay") =>
        /\ \A k \in 1..Len(trace) :
              /\ trace[k] = "sleep" =>
                    /\ k > 1
                    /\ trace[k - 1] \in Failed
                    /\ k < Len(trace) => trace[k + 1] \in Outcomes
              /\ (trace[k] \in Failed /\ k < Len(trace)) =>
                    trace[k + 1] = "sleep"
              /\ trace[k] = "ok" => k = Len(trace)
        /\ call.pc = "ret" =>
              IF trace[Len(trace)] = "ok"
              THEN WaitsMade = AttemptsMade - 1
              ELSE /\ trace[Len(trace)] = "sleep"
                   /\ AttemptsMade = Attempts
                   /\ WaitsMade = Attempts

\* C4 witness: fail, fail, success has returned after exactly 2 waits.
C4_TwoWaitsThenSuccess ==
    /\ pc = "fetch" /\ prog = "Parlay"
    /\ call.pc = "ret"
    /\ trace = <<"non200", "sleep", "exc", "sleep", "ok">>
    /\ WaitsMade = 2

\* The fixture ids the running fan-out was given, in input order.
FanInput == IF prog = "Parlay" THEN FixtureIds(fixtures) ELSE FIXTURE_IDS

\* The indices of res whose result carries a prediction.
WithPrediction(res) ==
    {i \in 1..Len(res) : res[i].kind # "none" /\ res[i].entries > 0}

C6_ToggleFlips ==
    [][\A l \in LeagueIds :
          Toggle(l) =>
              /\ SELECTED_LEAGUE_IDS'.bound
              /\ (l \in SELECTED_LEAGUE_IDS'.ids) # (l \in SELECTED_LEAGUE_IDS.ids)
              /\ \A m \in LeagueIds \ {l} :
                    (m \in SELECTED_LEAGUE_IDS'.ids)
                        = (m \in SELECTED_LEAGUE_IDS.ids)]_vars

\* C7 (as claimed): a done callback, when listed leagues have been toggled
\* on, sets FIXTURE_IDS to the ids of the discovered fixtures of those leagues,
\* in discovery order.
C7_DoneSelects ==
    [][(Done /\ picked # {} /\ picked \subseteq bot_data.leagues) =>
          FIXTURE_IDS' = SelectFixtures(bot_data.fixtures, picked)]_vars

\* C8 (as claimed): a done callback while no league is selected is
\* rejected with a message and changes nothing.
C8_EmptyDoneRejected ==
    [][(Done /\ picked = {} /\ SELECTED_LEAGUE_IDS.ids = {}) =>
          /\ out'.reply = "rejected"
          /\ UNCHANGED <<SELECTED_LEAGUE_IDS, FIXTURE_IDS, bot_data>>]_vars

\* C9 (as claimed): once /jadwal has listed leagues, the selected set and
\* the fixture-id list are empty.
C9_JadwalDiscards ==
    [][((\E o \in Outcomes : Jadwal(o)) /\ out'.reply = "keyboard") =>
          /\ FIXTURE_IDS' = <<>>
          /\ SELECTED_LEAGUE_IDS'.ids = {}]_vars

\* C10 (as claimed): every id in FIXTURE_IDS is the id of a fixture of the
\* most recently discovered set (bot_data's fixtures).
C10_IdsAreDiscovered ==
    prog = "bot" =>
        \A i \in 1..Len(FIXTURE_IDS) :
            \E j \in 1..Len(bot_data.fixtures) :
                bot_data.fixtures[j].id = FIXTURE_IDS[i]

\* C11 (as claimed): a /prediksi that started with fixture ids and obtained
\* at least one prediction sends the document and leaves the workflow idle:
\* the selected set and the fixture-id list are empty and the state file
\* holds the cleared state.
C11_DeliversAndResets ==
    [][(PrediksiFinish /\ predictions' # <<>>) =>
          /\ out'.reply = "document"
          /\ SELECTED_LEAGUE_IDS'.ids = {}
          /\ FIXTURE_IDS' = <<>>
          /\ stateFile' = StateFileOf(<<>>, <<>>)]_vars

\* The ids of the fixtures that the requests of discovery returned on day
\* t for a league of the configured map: the request of league i for date
\* t + k returned data unless k is in failed[i].
ReturnedAllowed(t, failed) ==
    LET Ret(i, k) ==
            LET lst == SelectSeq(ApiFixtures(sched, t + k),
                                 LAMBDA f : f.league = LeagueMap[i])
            IN {lst[n].id : n \in 1..Len(lst)}
    IN UNION {IF k \in failed[i] THEN {} ELSE Ret(i, k) :
                 i \in 1..Len(LoadLeagueMap(leaguesFile).keys),
                 k \in {0, 1}}

\* C12 (as claimed): discovery in /get gives each fixture returned for
\* today or tomorrow whose league is in the configured set exactly once,
\* and no fixture of another league.
C12_DiscoveryExact ==
    [][\A failed \in Failures :
          (GetFetch(failed) /\ pc' = "gather") =>
              /\ {fixtures'[i].id : i \in 1..Len(fixtures')}
                     = ReturnedAllowed(today, failed)
              /\ \A i, j \in 1..Len(fixtures') :
                     fixtures'[i].id = fixtures'[j].id => i = j
              /\ \A i \in 1..Len(fixtures') :
                     \E n \in 1..Len(LeagueMap) :
                         fixtures'[i].league = LeagueMap[n]]_vars

\* C13: when load_cache has returned on day today, neither the cache it
\* returned nor the cache file holds a key before today, and every entry
\* the file held under today or a later day is in both, unchanged.
C13_ExpiredEvicted ==
    [][(GetCached \/ \E failed \in Failures : GetFetch(failed)) =>
          /\ \A k \in DOMAIN cache' : k >= today
          /\ \A k \in DOMAIN cacheFile'.data : k >= today
          /\ \A k \in DOMAIN cacheFile.data :
                k >= today =>
                    /\ k \in DOMAIN cache'
                    /\ cache'[k] = cacheFile.data[k]
                    /\ k \in DOMAIN cacheFile'.data
                    /\ cacheFile'.data[k] = cacheFile.data[k]]_vars

\* C13 witness: /get on day 1 has loaded a file that held an entry of day
\* 0 and one of a later day: the file was rewritten with the later entry
\* only, which is also the cache in memory.
C13_EvictedAndKept ==
    /\ prog = "Parlay" /\ pc = "gather" /\ today = 1
    /\ cacheFile = DictFile([k \in {MaxDay + 1} |-> OldEntry])
    /\ cache = cacheFile.data

\* C14 (as claimed): no content of a persisted file makes process start-up
\* or a command end with an exception: load_state leaves the selection
\* empty on a malformed state file and load_cache returns an empty or
\* cleaned cache on a malformed cache file.
C14_MalformedIsEmpty ==
    /\ pc # "dead"
    /\ (out.cmd = "main" /\ stateFile.kind \in {"bad", "list"}) =>
           (SELECTED_LEAGUE = <<>> /\ FIXTURE_IDS = <<>>)
    /\ out.cmd = "get" => out.reply \notin {"AttributeError", "ValueError"}
          \/ LoadLeagueMap(leaguesFile).kind = "list"

\* C15 (as claimed): a command whose stage gave an empty result set (no
\* fixture discovered, no prediction for any fixture) tells the user so in
\* a status message and stops: no document is sent, no exception escapes.
C15_EmptyReported ==
    [][/\ (GetFinish /\ predictions' = <<>>) =>
              out'.reply \in {"no_fixtures", "no_predictions"}
       /\ (PrediksiFinish /\ predictions' = <<>>) =>
              out'.reply = "no_predictions"
       /\ (Jadwal("ok") /\ ApiFixtures(sched, today) = <<>>) =>
              out'.reply = "no_fixtures"]_vars

\* The leagues a state file holds under "league".
FileLeagues(file) == {file.league[i] : i \in 1..Len(file.league)}

\* C16 (as claimed): after a done callback with listed leagues toggled on,
\* the state file holds those leagues and the fixture ids resolved from
\* them; after a delivery the file holds the cleared state.
C16_FileFollowsSelection ==
    [][/\ (Done /\ picked # {} /\ picked \subseteq bot_data.leagues) =>
              /\ stateFile'.kind = "dict"
              /\ FileLeagues(stateFile') = picked
              /\ stateFile'.fixtures
                     = SelectFixtures(bot_data.fixtures, picked)
       /\ (PrediksiFinish
              /\ out'.reply \in {"document", "document_NameError"}) =>
              stateFile' = StateFileOf(<<>>, <<>>)]_vars

\* C17 (as claimed): every inline button offered carries callback data
\* that the callback handler acts on: toggle:<league_id> or done.
C17_OfferedAreHandled ==
    \A b \in keyboard : b[1] \in {"toggle", "done"}

\* C18: under fair scheduling every prediction fan-out completes: a task
\* waiting for a slot is admitted, the handler leaves asyncio.gather, and
\* when the fan-in returns every slot of the gate has been given back,
\* whatever way each request ended.
C18_FanOutCompletes ==
    /\ (pc = "gather") ~> (pc = "idle")
    /\ (pc = "gather" /\ WaitingTasks # {})
          ~> (pc = "idle" \/ (pc = "gather" /\ WaitingTasks = {}))
    /\ [][(pc = "gather" /\ pc' = "idle" /\ AllReturned) => sem = Limit]_vars

\* C18 witness: in /get's fan-out the task that had to wait for a slot is
\* in the backoff after its last attempt, all others have returned, some
\* with data and some without.
C18_LastTaskFinishing ==
    /\ prog = "Parlay" /\ pc = "gather" /\ Len(task) = FullCount
    /\ task[FullCount].pc = "sleep" /\ task[FullCount].att = Attempts
    /\ \A i \in 1..(FullCount - 1) : task[i].pc = "ret"
    /\ \E i \in 1..(FullCount - 1) : task[i].res = NoData
    /\ \E i \in 1..(FullCount - 1) : task[i].res.kind = "json"

\* The position of fixture f in the API's answer for its date.
ApiIndex(f) ==
    CHOOSE n \in 1..Len(ApiFixtures(sched, f.date)) :
        ApiFixtures(sched, f.date)[n] = f

\* C19 (as claimed): the fixture list of discovery in /get has every
\* fixture of today before every fixture of tomorrow, and the fixtures of
\* one date in the order of the API's answer.
C19_DateThenApiOrder ==
    [][\A failed \in Failures :
          (GetFetch(failed) /\ pc' = "gather") =>
              \A i, j \in 1..Len(fixtures') :
                  i < j =>
                     \/ fixtures'[i].date < fixtures'[j].date
                     \/ /\ fixtures'[i].date = fixtures'[j].date
                        /\ ApiIndex(fixtures'[i])
                               < ApiIndex(fixtures'[j])]_vars

C21_CacheOnlyWithPredictions ==
    [][/\ (GetFinish /\ predictions' = <<>>) => UNCHANGED cacheFile
       /\ GetCached => predictions' # <<>>]_vars

====
